---- MODULE Spec2Model ----
(***************************************************************************)
(* CherepkovStack (src/main.cpp): a growable stack guarded by two          *)
(* canaries, a running control sum of element hashes and a sticky error    *)
(* bitmask that check_validity() turns into a thrown std::runtime_error.   *)
(*                                                                         *)
(* The members of the instance are the variables of the same name.  The    *)
(* storage block buffer_ points to is `mem` (1-based: mem[i+1] is          *)
(* buffer_[i]).  The remaining variables record the last call's outcome    *)
(* and the history needed to state the properties.                         *)
(***************************************************************************)
EXTENDS Integers, Sequences, FiniteSets, TLC

\* ------------------------------------------------------------ bounds
NumValues       == 2   \* element values are 1..NumValues
HashWidth       == 3   \* bits of hash_value_type kept by the model
MaxInitCapacity == 2   \* constructor argument ranges over 0..MaxInitCapacity
MaxCapacity     == 4   \* expand() is not explored beyond this capacity
MaxGrows        == 3   \* successful expand() calls explored
MaxOverwrites   == 1   \* writes by the environment explored

\* ------------------------------------------------------------ constants
POP_FROM_EMPTY_STACK    == 2
BAD_ALLOC               == 4
WRONG_CONTROL_SUM       == 8
CANARY_BEFORE_CORRUPTED == 16
CANARY_AFTER_CORRUPTED  == 32
TOP_FROM_EMPTY_STACK    == 64
GROWTH_FACTOR_          == 2

StackErrors == {POP_FROM_EMPTY_STACK, BAD_ALLOC, WRONG_CONTROL_SUM,
                CANARY_BEFORE_CORRUPTED, CANARY_AFTER_CORRUPTED,
                TOP_FROM_EMPTY_STACK}

\* 0xDEADBEEF, and some other word a canary may hold after an overwrite
POISON  == "0xDEADBEEF"
Garbage == "0x00000000"
CanaryValues == {POISON, Garbage}

nullptr == 0
\* the addresses allocate() may return; the old block is still allocated
\* when expand() asks for the new one, so the new address differs from it
Addresses == {1, 2}

Values  == 1..NumValues
\* content of a slot no element was ever stored in (unspecified)
Uninit  == 0
\* what a moved-from element holds (valid but unspecified; empty here)
MovedFrom == 0
\* what a read of buffer_[size_ - 1] yields when size_ == 0 (out of range)
OutOfRange == -1

HashMod == 2 ^ HashWidth
\* the caller-supplied hash functor, fixed to one function for the model
hash_function_(v) == (3 * v) % HashMod

VARIABLES
    canary_before_,   \* size_t canary_before_{POISON}
    control_sum_,     \* hash_value_type control_sum_{0}
    capacity_,        \* size_t capacity_
    size_,            \* size_t size_
    buffer_,          \* pointer buffer_{nullptr}: the address held
    mem,              \* the block at buffer_: a sequence of capacity_ slots
    errors_,          \* mutable int errors_{0}
    canary_after_,    \* size_t canary_after_{POISON}
    safe_mode,        \* whether STACK_SAFE_MODE is defined in the build
    status,           \* "alive", "noinstance" (constructor threw),
                      \* "aborted" (assert failed), "ub" (wild write)
    op,               \* the last call made
    thrown,           \* whether that call threw std::runtime_error
    ret,              \* <<v>> when that call returned v, << >> otherwise
    alloc_failed,     \* whether allocate() threw bad_alloc in that call
    live,             \* history: the elements pushed and not yet popped (a
                      \* pop() of a non-empty stack removes one even when
                      \* its validation throws afterwards)
    popped,           \* history: whether some pop() has removed an element
    grows,            \* history: expand() calls that installed a new block
    overwrites,       \* history: writes made by the environment
    cap0              \* history: the capacity given to the constructor

members == <<canary_before_, control_sum_, capacity_, size_, buffer_, mem,
             errors_, canary_after_>>
outcome == <<status, op, thrown, ret, alloc_failed>>
history == <<live, popped, grows, overwrites, cap0>>
vars    == <<members, outcome, history, safe_mode>>

\* the instance as one value, for the operators below
Self == [canary_before_ |-> canary_before_, control_sum_ |-> control_sum_,
         capacity_ |-> capacity_, size_ |-> size_, buffer_ |-> buffer_,
         mem |-> mem, errors_ |-> errors_, canary_after_ |-> canary_after_]

\* ------------------------------------------------------------ error macros
\* has_error(error_type): (errors_ & error_type) != 0, error_type one bit
has_error(errs, error_type) == (errs \div error_type) % 2 = 1

\* a slip: errors_ = error_type instead of errors_ |= error_type
set_error_assign(errs, error_type) == error_type

\* set_error(error_type): errors_ |= error_type, error_type one bit
set_error(errs, error_type) ==
    IF has_error(errs, error_type) THEN errs ELSE errs + error_type

\* ------------------------------------------------------------ private methods
\* buffer_[i] for the 0-based index i
Slot(s, i) == IF i + 1 \in 1..Len(s.mem) THEN s.mem[i + 1] ELSE Uninit

\* the loop of check_control_sum: hashes of buffer_[0 .. n-1], summed in
\* hash_value_type
RECURSIVE SumOfHashes(_, _)
SumOfHashes(s, n) ==
    IF n = 0 THEN 0
    ELSE (SumOfHashes(s, n - 1) + hash_function_(Slot(s, n - 1))) % HashMod

\* a slip: only a control sum that is too small is reported
check_control_sum_lt(s) ==
    IF s.control_sum_ < SumOfHashes(s, s.size_)
    THEN [s EXCEPT !.errors_ = set_error(@, WRONG_CONTROL_SUM)]
    ELSE s

check_control_sum(s) ==
    IF s.control_sum_ # SumOfHashes(s, s.size_)
    THEN [s EXCEPT !.errors_ = set_error(@, WRONG_CONTROL_SUM)]
    ELSE s

\* a slip: the rear canary is only looked at when the front one is intact
check_canaries_else_if(s) ==
    IF s.canary_before_ # POISON
    THEN [s EXCEPT !.errors_ = set_error(@, CANARY_BEFORE_CORRUPTED)]
    ELSE IF s.canary_after_ # POISON
         THEN [s EXCEPT !.errors_ = set_error(@, CANARY_AFTER_CORRUPTED)]
         ELSE s

check_canaries(s) ==
    LET s1 == IF s.canary_before_ # POISON
              THEN [s EXCEPT !.errors_ = set_error(@, CANARY_BEFORE_CORRUPTED)]
              ELSE s
    IN  IF s1.canary_after_ # POISON
        THEN [s1 EXCEPT !.errors_ = set_error(@, CANARY_AFTER_CORRUPTED)]
        ELSE s1

\* print_errors: returns when errors_ == 0, otherwise writes the diagnostic
\* and throws; TRUE means it threw
print_errors(s) == s.errors_ # 0

\* a slip: the bitmask is cleared once it has been reported
check_validity_clear(s) ==
    LET s2 == check_canaries(check_control_sum(s))
    IN  [st |-> [s2 EXCEPT !.errors_ = 0], thrown |-> print_errors(s2)]

\* a slip: validation that skips the control sum
check_validity_no_sum(s) ==
    LET s2 == check_canaries(s)
    IN  [st |-> s2, thrown |-> print_errors(s2)]

\* check_validity: [st: the instance afterwards, thrown: whether it threw]
check_validity(s) ==
    LET s2 == check_canaries(check_control_sum(s))
    IN  [st |-> s2, thrown |-> print_errors(s2)]

\* the CHECK_VALIDITY macro: check_validity() under STACK_SAFE_MODE, else ;
CHECK_VALIDITY(s, safe) ==
    IF safe THEN check_validity(s) ELSE [st |-> s, thrown |-> FALSE]

\* allocate(n): a fresh block of n slots at an address other than `old`
NewAddress(old) == IF old = 1 THEN 2 ELSE 1
NewBlock(n) == [i \in 1..n |-> Uninit]

\* a slip: the catch block records BAD_ALLOC but does not return
expand_no_return(s, alloc_ok) ==
    LET new_capacity == s.size_ * GROWTH_FACTOR_
    IN  IF ~alloc_ok
        THEN [s EXCEPT !.errors_ = set_error(@, BAD_ALLOC),
                       !.capacity_ = new_capacity]
        ELSE [s EXCEPT
                !.mem = [i \in 1..new_capacity |->
                            IF i <= s.capacity_ THEN Slot(s, i - 1) ELSE Uninit],
                !.buffer_ = NewAddress(s.buffer_),
                !.capacity_ = new_capacity]

\* a slip: the new capacity is the old one plus one
expand_by_one(s, alloc_ok) ==
    LET new_capacity == s.size_ + 1
    IN  IF ~alloc_ok
        THEN [s EXCEPT !.errors_ = set_error(@, BAD_ALLOC)]
        ELSE [s EXCEPT
                !.mem = [i \in 1..new_capacity |->
                            IF i <= s.capacity_ THEN Slot(s, i - 1) ELSE Uninit],
                !.buffer_ = NewAddress(s.buffer_),
                !.capacity_ = new_capacity]

\* a slip: the capacity is divided by the growth factor
expand_shrink(s, alloc_ok) ==
    LET new_capacity == s.size_ \div GROWTH_FACTOR_
    IN  IF ~alloc_ok
        THEN [s EXCEPT !.errors_ = set_error(@, BAD_ALLOC)]
        ELSE [s EXCEPT
                !.mem = [i \in 1..new_capacity |->
                            IF i <= s.capacity_ THEN Slot(s, i - 1) ELSE Uninit],
                !.buffer_ = NewAddress(s.buffer_),
                !.capacity_ = new_capacity]

\* expand(), called with size_ == capacity_; alloc_ok: allocate() succeeds
expand(s, alloc_ok) ==
    LET new_capacity == s.size_ * GROWTH_FACTOR_
    IN  IF ~alloc_ok
        THEN [s EXCEPT !.errors_ = set_error(@, BAD_ALLOC)]
        ELSE [s EXCEPT
                !.mem = [i \in 1..new_capacity |->
                            IF i <= s.capacity_ THEN Slot(s, i - 1) ELSE Uninit],
                !.buffer_ = NewAddress(s.buffer_),
                !.capacity_ = new_capacity]

\* ------------------------------------------------------------ public methods
\* Each yields [st: the instance afterwards, thrown: whether the call threw,
\* status: "alive" or how the program ended, ret: <<value>> or << >>].

\* a slip: the constructor without its CHECK_VALIDITY
constructor_no_check(capacity, alloc_ok, safe) ==
    [st |-> [canary_before_ |-> POISON, control_sum_ |-> 0,
             capacity_ |-> capacity, size_ |-> 0,
             buffer_ |-> IF alloc_ok THEN NewAddress(nullptr) ELSE nullptr,
             mem |-> IF alloc_ok THEN NewBlock(capacity) ELSE << >>,
             errors_ |-> IF alloc_ok THEN 0 ELSE set_error(0, BAD_ALLOC),
             canary_after_ |-> POISON],
     thrown |-> FALSE, status |-> "alive", ret |-> << >>]

\* CherepkovStack(capacity, hash_function, allocator); a constructor that
\* throws yields no instance
constructor(capacity, alloc_ok, safe) ==
    LET s0 == [canary_before_ |-> POISON, control_sum_ |-> 0,
               capacity_ |-> capacity, size_ |-> 0,
               buffer_ |-> IF alloc_ok THEN NewAddress(nullptr) ELSE nullptr,
               mem |-> IF alloc_ok THEN NewBlock(capacity) ELSE << >>,
               errors_ |-> IF alloc_ok THEN 0 ELSE set_error(0, BAD_ALLOC),
               canary_after_ |-> POISON]
        v  == CHECK_VALIDITY(s0, safe)
    IN  [st |-> v.st, thrown |-> v.thrown,
         status |-> IF v.thrown THEN "noinstance" ELSE "alive",
         ret |-> << >>]

\* a slip: the comparison in empty() is inverted
empty_negated(s, safe) ==
    LET v == CHECK_VALIDITY(s, safe)
    IN  [st |-> v.st, thrown |-> v.thrown, status |-> "alive",
         ret |-> IF v.thrown THEN << >> ELSE <<v.st.size_ # 0>>]

\* bool empty()
empty(s, safe) ==
    LET v == CHECK_VALIDITY(s, safe)
    IN  [st |-> v.st, thrown |-> v.thrown, status |-> "alive",
         ret |-> IF v.thrown THEN << >> ELSE <<v.st.size_ = 0>>]

\* a slip: pop() that records nothing on an empty stack
pop_no_error(s, safe) ==
    LET s1 == IF s.size_ = 0
              THEN s
              ELSE [s EXCEPT
                      !.control_sum_ =
                          (@ - hash_function_(Slot(s, s.size_ - 1))) % HashMod,
                      !.size_ = @ - 1]
        v  == CHECK_VALIDITY(s1, safe)
    IN  [st |-> v.st, thrown |-> v.thrown, status |-> "alive", ret |-> << >>]

\* a slip: pop() that decrements size_ but leaves control_sum_ alone
pop_keep_sum(s, safe) ==
    LET s1 == IF s.size_ = 0
              THEN [s EXCEPT !.errors_ = set_error(@, POP_FROM_EMPTY_STACK)]
              ELSE [s EXCEPT !.size_ = @ - 1]
        v  == CHECK_VALIDITY(s1, safe)
    IN  [st |-> v.st, thrown |-> v.thrown, status |-> "alive", ret |-> << >>]

\* a slip: the control sum is kept up only under STACK_SAFE_MODE
pop_sum_only_safe(s, safe) ==
    LET s1 == IF s.size_ = 0
              THEN [s EXCEPT !.errors_ = set_error(@, POP_FROM_EMPTY_STACK)]
              ELSE [s EXCEPT
                      !.control_sum_ =
                          IF safe
                          THEN (@ - hash_function_(Slot(s, s.size_ - 1))) % HashMod
                          ELSE @,
                      !.size_ = @ - 1]
        v  == CHECK_VALIDITY(s1, safe)
    IN  [st |-> v.st, thrown |-> v.thrown, status |-> "alive", ret |-> << >>]

\* a slip: pop() that validates before it removes the element
pop_check_first(s, safe) ==
    LET s0 == IF s.size_ = 0
              THEN [s EXCEPT !.errors_ = set_error(@, POP_FROM_EMPTY_STACK)]
              ELSE s
        v  == CHECK_VALIDITY(s0, safe)
        s1 == IF v.thrown \/ s.size_ = 0
              THEN v.st
              ELSE [v.st EXCEPT
                      !.control_sum_ =
                          (@ - hash_function_(Slot(s, s.size_ - 1))) % HashMod,
                      !.size_ = @ - 1]
    IN  [st |-> s1, thrown |-> v.thrown, status |-> "alive", ret |-> << >>]

\* void pop()
pop(s, safe) ==
    LET s1 == IF s.size_ = 0
              THEN [s EXCEPT !.errors_ = set_error(@, POP_FROM_EMPTY_STACK)]
              ELSE [s EXCEPT
                      !.control_sum_ =
                          (@ - hash_function_(Slot(s, s.size_ - 1))) % HashMod,
                      !.size_ = @ - 1]
        v  == CHECK_VALIDITY(s1, safe)
    IN  [st |-> v.st, thrown |-> v.thrown, status |-> "alive", ret |-> << >>]

\* a slip: top() that records nothing on an empty stack
top_no_error(s, safe) ==
    LET v == CHECK_VALIDITY(s, safe)
    IN  [st |-> v.st, thrown |-> v.thrown, status |-> "alive",
         ret |-> IF v.thrown THEN << >>
                 ELSE IF v.st.size_ = 0 THEN <<OutOfRange>>
                 ELSE <<Slot(v.st, v.st.size_ - 1)>>]

\* a slip: top() validates before it records the empty stack
top_check_first(s, safe) ==
    LET v  == CHECK_VALIDITY(s, safe)
        s1 == IF v.st.size_ = 0
              THEN [v.st EXCEPT !.errors_ = set_error(@, TOP_FROM_EMPTY_STACK)]
              ELSE v.st
    IN  [st |-> s1, thrown |-> v.thrown, status |-> "alive",
         ret |-> IF v.thrown THEN << >>
                 ELSE IF s1.size_ = 0 THEN <<OutOfRange>>
                 ELSE <<Slot(s1, s1.size_ - 1)>>]

\* a slip: top() returns the first slot instead of the last live one
top_bottom(s, safe) ==
    LET s1 == IF s.size_ = 0
              THEN [s EXCEPT !.errors_ = set_error(@, TOP_FROM_EMPTY_STACK)]
              ELSE s
        v  == CHECK_VALIDITY(s1, safe)
    IN  [st |-> v.st, thrown |-> v.thrown, status |-> "alive",
         ret |-> IF v.thrown THEN << >>
                 ELSE IF v.st.size_ = 0 THEN <<OutOfRange>>
                 ELSE <<Slot(v.st, 0)>>]

\* reference top() / const_reference top() const; the first only casts the
\* result of the second.  With size_ == 0 the slot returned is buffer_[-1].
top(s, safe) ==
    LET s1 == IF s.size_ = 0
              THEN [s EXCEPT !.errors_ = set_error(@, TOP_FROM_EMPTY_STACK)]
              ELSE s
        v  == CHECK_VALIDITY(s1, safe)
    IN  [st |-> v.st, thrown |-> v.thrown, status |-> "alive",
         ret |-> IF v.thrown THEN << >>
                 ELSE IF v.st.size_ = 0 THEN <<OutOfRange>>
                 ELSE <<Slot(v.st, v.st.size_ - 1)>>]

\* the three statements after the assert of push(const_reference)
WriteCopy(s, element) ==
    [s EXCEPT !.mem[s.size_ + 1] = element,
              !.size_ = @ + 1,
              !.control_sum_ = (@ + hash_function_(element)) % HashMod]

\* the three statements after the assert of push(rvalue_reference): the
\* hash is taken before the element is moved from
WriteMove(s, element) ==
    LET sum == (s.control_sum_ + hash_function_(element)) % HashMod
    IN  [s EXCEPT !.control_sum_ = sum,
                  !.mem[s.size_ + 1] = element,
                  !.size_ = @ + 1]

\* a slip: push() that stores the element but does not add its hash
push_no_sum(s, element, alloc_ok, safe) ==
    LET s1 == IF s.size_ = s.capacity_ THEN expand(s, alloc_ok) ELSE s
        v  == CHECK_VALIDITY(s1, safe)
    IN  IF v.thrown
        THEN [st |-> v.st, thrown |-> TRUE, status |-> "alive", ret |-> << >>]
        ELSE IF ~(v.st.size_ < v.st.capacity_)
        THEN [st |-> v.st, thrown |-> FALSE, status |-> "aborted", ret |-> << >>]
        ELSE IF v.st.buffer_ = nullptr
        THEN [st |-> v.st, thrown |-> FALSE, status |-> "ub", ret |-> << >>]
        ELSE [st |-> [v.st EXCEPT !.mem[v.st.size_ + 1] = element,
                                  !.size_ = @ + 1],
              thrown |-> FALSE, status |-> "alive", ret |-> << >>]

\* void push(const_reference element).  A failed assert aborts the program;
\* a store through a null buffer_ is undefined.
push(s, element, alloc_ok, safe) ==
    LET s1 == IF s.size_ = s.capacity_ THEN expand(s, alloc_ok) ELSE s
        v  == CHECK_VALIDITY(s1, safe)
    IN  IF v.thrown
        THEN [st |-> v.st, thrown |-> TRUE, status |-> "alive", ret |-> << >>]
        ELSE IF ~(v.st.size_ < v.st.capacity_)
        THEN [st |-> v.st, thrown |-> FALSE, status |-> "aborted", ret |-> << >>]
        ELSE IF v.st.buffer_ = nullptr
        THEN [st |-> v.st, thrown |-> FALSE, status |-> "ub", ret |-> << >>]
        ELSE [st |-> WriteCopy(v.st, element),
              thrown |-> FALSE, status |-> "alive", ret |-> << >>]

\* a slip: the hash is taken after the element was moved from
push_move_hash_late(s, element, alloc_ok, safe) ==
    LET s1 == IF s.size_ = s.capacity_ THEN expand(s, alloc_ok) ELSE s
        v  == CHECK_VALIDITY(s1, safe)
    IN  IF v.thrown
        THEN [st |-> v.st, thrown |-> TRUE, status |-> "alive", ret |-> << >>]
        ELSE IF ~(v.st.size_ < v.st.capacity_)
        THEN [st |-> v.st, thrown |-> FALSE, status |-> "aborted", ret |-> << >>]
        ELSE IF v.st.buffer_ = nullptr
        THEN [st |-> v.st, thrown |-> FALSE, status |-> "ub", ret |-> << >>]
        ELSE [st |-> [v.st EXCEPT
                        !.mem[v.st.size_ + 1] = element,
                        !.size_ = @ + 1,
                        !.control_sum_ =
                            (@ + hash_function_(MovedFrom)) % HashMod],
              thrown |-> FALSE, status |-> "alive", ret |-> << >>]

\* void push(rvalue_reference element)
push_move(s, element, alloc_ok, safe) ==
    LET s1 == IF s.size_ = s.capacity_ THEN expand(s, alloc_ok) ELSE s
        v  == CHECK_VALIDITY(s1, safe)
    IN  IF v.thrown
        THEN [st |-> v.st, thrown |-> TRUE, status |-> "alive", ret |-> << >>]
        ELSE IF ~(v.st.size_ < v.st.capacity_)
        THEN [st |-> v.st, thrown |-> FALSE, status |-> "aborted", ret |-> << >>]
        ELSE IF v.st.buffer_ = nullptr
        THEN [st |-> v.st, thrown |-> FALSE, status |-> "ub", ret |-> << >>]
        ELSE [st |-> WriteMove(v.st, element),
              thrown |-> FALSE, status |-> "alive", ret |-> << >>]

\* ------------------------------------------------------------ the state machine
\* the members and the outcome after a call that yielded r
Install(r) ==
    /\ canary_before_' = r.st.canary_before_
    /\ control_sum_'   = r.st.control_sum_
    /\ capacity_'      = r.st.capacity_
    /\ size_'          = r.st.size_
    /\ buffer_'        = r.st.buffer_
    /\ mem'            = r.st.mem
    /\ errors_'        = r.st.errors_
    /\ canary_after_'  = r.st.canary_after_
    /\ status'         = r.status
    /\ thrown'         = r.thrown
    /\ ret'            = r.ret

Returned(r) == r.status = "alive" /\ ~r.thrown

\* the state the constructor leaves, for each capacity and allocation outcome
InitWith(safe) ==
    \E capacity \in 0..MaxInitCapacity, alloc_ok \in BOOLEAN :
        LET r == constructor(capacity, alloc_ok, safe)
        IN  /\ canary_before_ = r.st.canary_before_
            /\ control_sum_   = r.st.control_sum_
            /\ capacity_      = r.st.capacity_
            /\ size_          = r.st.size_
            /\ buffer_        = r.st.buffer_
            /\ mem            = r.st.mem
            /\ errors_        = r.st.errors_
            /\ canary_after_  = r.st.canary_after_
            /\ safe_mode      = safe
            /\ status         = r.status
            /\ op             = "constructor"
            /\ thrown         = r.thrown
            /\ ret            = r.ret
            /\ alloc_failed   = ~alloc_ok
            /\ live           = << >>
            /\ popped         = FALSE
            /\ grows          = 0
            /\ overwrites     = 0
            /\ cap0           = capacity

\* STACK_SAFE_MODE is defined (src/main.cpp line 11)
Init == InitWith(TRUE)

\* either build: STACK_SAFE_MODE defined or commented out
InitAnyMode == \E safe \in BOOLEAN : InitWith(safe)

\* allocate() is reached only through expand(), when size_ == capacity_
AllocOutcomes == IF size_ = capacity_ THEN BOOLEAN ELSE {TRUE}

\* what the exploration does not go beyond
WithinBounds(alloc_ok) ==
    (size_ = capacity_ /\ alloc_ok) =>
          /\ size_ * GROWTH_FACTOR_ <= MaxCapacity
          /\ grows < MaxGrows

PushEffect(r, name, element, alloc_ok) ==
    /\ Install(r)
    /\ op' = name
    /\ alloc_failed' = (size_ = capacity_ /\ ~alloc_ok)
    /\ grows' = IF r.st.buffer_ # buffer_ THEN grows + 1 ELSE grows
    /\ live' = IF Returned(r) THEN Append(live, element) ELSE live
    /\ UNCHANGED <<popped, overwrites, cap0, safe_mode>>

Push ==
    /\ status = "alive"
    /\ \E element \in Values, alloc_ok \in AllocOutcomes :
          /\ WithinBounds(alloc_ok)
          /\ PushEffect(push(Self, element, alloc_ok, safe_mode),
                        "push", element, alloc_ok)

PushMove ==
    /\ status = "alive"
    /\ \E element \in Values, alloc_ok \in AllocOutcomes :
          /\ WithinBounds(alloc_ok)
          /\ PushEffect(push_move(Self, element, alloc_ok, safe_mode),
                        "push_move", element, alloc_ok)

Pop ==
    /\ status = "alive"
    /\ LET r == pop(Self, safe_mode)
       IN  /\ Install(r)
           /\ op' = "pop"
           /\ alloc_failed' = FALSE
           /\ live' = IF Len(live) > 0
                      THEN SubSeq(live, 1, Len(live) - 1) ELSE live
           /\ popped' = (popped \/ Len(live) > 0)
           /\ UNCHANGED <<grows, overwrites, cap0, safe_mode>>

Top ==
    /\ status = "alive"
    /\ Install(top(Self, safe_mode))
    /\ op' = "top"
    /\ alloc_failed' = FALSE
    /\ UNCHANGED <<history, safe_mode>>

Empty ==
    /\ status = "alive"
    /\ Install(empty(Self, safe_mode))
    /\ op' = "empty"
    /\ alloc_failed' = FALSE
    /\ UNCHANGED <<history, safe_mode>>

Next == Push \/ PushMove \/ Pop \/ Top \/ Empty

Spec == Init /\ [][Next]_vars

\* ------------------------------------------------------------ the environment
\* Writes the class does not make itself: a stray write over the canaries
\* or a live slot, and the caller's write through the reference top()
\* returned.  MaxOverwrites bounds how many of them a run explores; writing
\* the canaries back is not counted.

Overwrite(name) ==
    /\ overwrites < MaxOverwrites
    /\ overwrites' = overwrites + 1
    /\ op' = name
    /\ thrown' = FALSE
    /\ ret' = << >>
    /\ alloc_failed' = FALSE
    /\ UNCHANGED <<status, safe_mode>>

\* one stray write over the instance changes one canary or both
CorruptCanaries ==
    /\ status = "alive"
    /\ \E wb, wa \in CanaryValues :
          /\ <<wb, wa>> # <<canary_before_, canary_after_>>
          /\ <<wb, wa>> # <<POISON, POISON>>
          /\ canary_before_' = wb
          /\ canary_after_' = wa
    /\ Overwrite("corrupt_canaries")
    /\ UNCHANGED <<control_sum_, capacity_, size_, buffer_, mem, errors_,
                   live, popped, grows, cap0>>

\* the canaries are written back to POISON (the damage is repaired)
RestoreCanaries ==
    /\ status = "alive"
    /\ <<canary_before_, canary_after_>> # <<POISON, POISON>>
    /\ canary_before_' = POISON
    /\ canary_after_' = POISON
    /\ op' = "restore_canaries"
    /\ thrown' = FALSE
    /\ ret' = << >>
    /\ alloc_failed' = FALSE
    /\ UNCHANGED <<control_sum_, capacity_, size_, buffer_, mem, errors_,
                   status, safe_mode, history>>

\* a live slot buffer_[i] is overwritten behind the class's back
CorruptSlot ==
    /\ status = "alive"
    /\ \E i \in 1..size_, v \in Values :
          /\ mem[i] # v
          /\ mem' = [mem EXCEPT ![i] = v]
    /\ Overwrite("corrupt_slot")
    /\ UNCHANGED <<canary_before_, control_sum_, capacity_, size_, buffer_,
                   errors_, canary_after_, live, popped, grows, cap0>>

\* the caller assigns through the reference the last call, top(), returned
WriteTop ==
    /\ status = "alive"
    /\ op = "top" /\ ~thrown /\ size_ > 0
    /\ \E v \in Values :
          /\ mem' = [mem EXCEPT ![size_] = v]
          /\ live' = IF Len(live) > 0
                     THEN [live EXCEPT ![Len(live)] = v] ELSE live
    /\ Overwrite("write_top")
    /\ UNCHANGED <<canary_before_, control_sum_, capacity_, size_, buffer_,
                   errors_, canary_after_, popped, grows, cap0>>

NextCorrupt ==
    \/ Next
    \/ CorruptCanaries \/ RestoreCanaries \/ CorruptSlot \/ WriteTop

\* the class in an environment that may overwrite its memory
SpecCorrupt == Init /\ [][NextCorrupt]_vars

\* the values a write from outside the class can leave in a slot: any
\* value_type value, not only the ones the caller pushes
TamperValues == 1..(NumValues + 1)

\* one external change to the live slots buffer_[0, size_) of an instance
\* that was unpoisoned and untouched until then (its slots hold what was
\* pushed): a stray write over the topmost live slot and its neighbour
\* below, if there is one, which leaves them permuted or with other contents
TamperSlots ==
    /\ status = "alive"
    /\ errors_ = 0
    /\ size_ > 0
    /\ [i \in 1..size_ |-> mem[i]] = live
    /\ \E v, w \in TamperValues :
          LET below   == IF size_ > 1 THEN size_ - 1 ELSE size_
              changed == [[mem EXCEPT ![below] = v] EXCEPT ![size_] = w]
          IN  /\ size_ = 1 => v = w
              /\ changed # mem
              /\ mem' = changed
    /\ op' = "tamper_slots"
    /\ thrown' = FALSE
    /\ ret' = << >>
    /\ alloc_failed' = FALSE
    /\ UNCHANGED <<canary_before_, control_sum_, capacity_, size_, buffer_,
                   errors_, canary_after_, status, safe_mode, history>>

NextTamper == Next \/ TamperSlots

\* the class in an environment that may rewrite its live slots
SpecTamper == Init /\ [][NextTamper]_vars

\* the class in either build
SpecAnyMode == InitAnyMode /\ [][Next]_vars

\* ------------------------------------------------------------ properties
ApiOps  == {"push", "push_move", "pop", "top", "empty"}
PushOps == {"push", "push_move"}

\* the sum of the hashes of a sequence of elements, in hash_value_type
RECURSIVE LiveSum(_)
LiveSum(seq) ==
    IF seq = << >> THEN 0
    ELSE (hash_function_(Head(seq)) + LiveSum(Tail(seq))) % HashMod

\* the slots buffer_[0 .. size_-1]
LiveSlots == [i \in 1..size_ |-> mem[i]]

\* the least g with c * 2^g >= k, which is ceil(log2(k/c)) for k > c >= 1
RECURSIVE GrowthSteps(_, _)
GrowthSteps(k, c) == IF c >= k THEN 0 ELSE 1 + GrowthSteps(k, c * GROWTH_FACTOR_)

\* C1: as long as no call has failed, after every push and pop the stored
\* control sum is the sum of the hashes of the elements pushed and not yet
\* popped (modulo the hash width), size_ is their number, and the slots
\* below size_ hold them.
C1_ChecksumAndSize ==
    (status = "alive" /\ errors_ = 0) =>
        /\ control_sum_ = LiveSum(live)
        /\ size_ = Len(live)
        /\ LiveSlots = live

C1_Witness ==
    /\ op = "pop" /\ ~thrown /\ errors_ = 0 /\ grows = 0
    /\ size_ = 1 /\ control_sum_ # 0

\* C2: after k pushes and no pop on an instance constructed with capacity
\* c >= 1, with no allocation failure, expand() has run ceil(log2(k/c)) times
\* (0 times when k <= c), the capacity is c doubled that many times, and the
\* slots hold the k pushed elements in the order pushed, with errors_ == 0.
C2_GrowthSteps ==
    (status = "alive" /\ errors_ = 0 /\ ~popped /\ cap0 >= 1) =>
        /\ size_ = Len(live)
        /\ grows = GrowthSteps(Len(live), cap0)
        /\ capacity_ = cap0 * (GROWTH_FACTOR_ ^ grows)
        /\ LiveSlots = live

C2_Witness ==
    /\ cap0 = 2 /\ ~popped /\ errors_ = 0 /\ status = "alive"
    /\ live = <<1, 2, 1>> /\ capacity_ = 4 /\ grows = 1

\* C3: pop() with size_ == 0 sets POP_FROM_EMPTY_STACK, leaves size_ at 0 and
\* control_sum_ unchanged, and throws; and once that bit is set every push,
\* pop, top and empty call throws.
C3_PopFromEmpty ==
    [][ /\ (op' = "pop" /\ size_ = 0) =>
              /\ has_error(errors_', POP_FROM_EMPTY_STACK)
              /\ size_' = 0
              /\ control_sum_' = control_sum_
              /\ thrown'
        /\ (has_error(errors_, POP_FROM_EMPTY_STACK) /\ op' \in ApiOps) =>
              /\ thrown'
              /\ has_error(errors_', POP_FROM_EMPTY_STACK)
      ]_vars

C3_Witness ==
    /\ op \in PushOps /\ thrown
    /\ errors_ = POP_FROM_EMPTY_STACK

\* C4: top() with size_ == 0 sets TOP_FROM_EMPTY_STACK and throws without
\* returning; whenever top() returns a value, size_ > 0 and the value is the
\* slot buffer_[size_ - 1], never the out-of-range one.
C4_TopFromEmpty ==
    /\ [](  (op = "top" /\ ~thrown) =>
                /\ size_ > 0
                /\ ret = <<mem[size_]>>  )
    /\ [][ (op' = "top" /\ size_ = 0) =>
              /\ has_error(errors_', TOP_FROM_EMPTY_STACK)
              /\ thrown'
              /\ ret' = << >>
         ]_vars

C4_Witness ==
    /\ op = "top" /\ thrown /\ size_ = 0
    /\ errors_ = TOP_FROM_EMPTY_STACK

\* C5: no step clears an error bit: a bit set in errors_ before a step is set
\* after it, also when the canaries have been written back to POISON.
C5_Sticky ==
    [][ \A e \in StackErrors : has_error(errors_, e) => has_error(errors_', e)
      ]_vars

C5_Witness ==
    /\ op \in ApiOps
    /\ canary_before_ = POISON /\ canary_after_ = POISON
    /\ has_error(errors_, CANARY_BEFORE_CORRUPTED)

\* C6: Empty, NonEmpty (errors_ == 0) and Poisoned (errors_ != 0).  While
\* errors_ stays 0 a push adds one element, a pop removes one from a
\* non-empty stack and the other calls leave size_ alone; a call throws
\* exactly when it leaves errors_ nonzero; and from Poisoned every step
\* stays in Poisoned and every push, pop, top and empty call throws.
C6_StateMachine ==
    [][ /\ (errors_ # 0) => (errors_' # 0 /\ (op' \in ApiOps => thrown'))
        /\ (op' \in ApiOps) => (thrown' <=> errors_' # 0)
        /\ (errors_ = 0 /\ errors_' = 0 /\ status' = "alive") =>
              /\ (op' \in PushOps) => size_' = size_ + 1
              /\ (op' = "pop") => (size_ > 0 /\ size_' = size_ - 1)
              /\ (op' \notin PushOps \cup {"pop"}) => size_' = size_
      ]_vars

C6_Witness ==
    /\ op \in PushOps /\ thrown
    /\ has_error(errors_, WRONG_CONTROL_SUM)
    /\ has_error(errors_, POP_FROM_EMPTY_STACK)

\* C7: on an instance that has not grown and has reported nothing, a push
\* below capacity and a pop of a non-empty stack return normally; when
\* every pushed element has been popped again, size_ and control_sum_ are
\* back at 0; and the next pop sets exactly POP_FROM_EMPTY_STACK and throws.
C7_PushPopRoundTrip ==
    /\ [](  (status = "alive" /\ errors_ = 0 /\ grows = 0 /\ live = << >>) =>
                (size_ = 0 /\ control_sum_ = 0)  )
    /\ [][ (errors_ = 0 /\ grows' = 0) =>
              /\ (op' \in PushOps /\ size_ < capacity_) =>
                    /\ ~thrown' /\ status' = "alive" /\ errors_' = 0
                    /\ size_' = size_ + 1
              /\ (op' = "pop" /\ size_ > 0) =>
                    /\ ~thrown' /\ errors_' = 0
                    /\ size_' = size_ - 1
              /\ (op' = "pop" /\ size_ = 0) =>
                    /\ thrown' /\ errors_' = POP_FROM_EMPTY_STACK
                    /\ size_' = 0
         ]_vars

C7_Witness ==
    /\ op = "pop" /\ thrown /\ errors_ = POP_FROM_EMPTY_STACK
    /\ cap0 = 2 /\ grows = 0 /\ size_ = 0 /\ live = << >>
    /\ mem[1] # Uninit /\ mem[2] # Uninit

\* C8, as stated: a constructor whose allocation fails records BAD_ALLOC and
\* still completes, yielding an instance with the bit set.
C8_ConstructorCompletes ==
    (op = "constructor" /\ alloc_failed) =>
        /\ has_error(errors_, BAD_ALLOC)
        /\ ~thrown
        /\ status = "alive"

\* C8, amended: a constructor whose allocation fails records BAD_ALLOC; with
\* STACK_SAFE_MODE defined its own CHECK_VALIDITY throws at once and no
\* instance exists; only with STACK_SAFE_MODE undefined does it complete
\* with the bit set.
C8_ConstructorThrows ==
    (op = "constructor" /\ alloc_failed) =>
        /\ has_error(errors_, BAD_ALLOC)
        /\ safe_mode => (thrown /\ status = "noinstance")
        /\ ~safe_mode => (~thrown /\ status = "alive")

C8_Witness ==
    /\ op = "constructor" /\ alloc_failed /\ safe_mode
    /\ thrown /\ status = "noinstance"

\* C9: a push whose expand() fails to allocate records BAD_ALLOC and changes
\* neither capacity_, buffer_ nor any slot, nor size_, control_sum_ or the
\* live elements; the block always has exactly capacity_ slots.
C9_FailedGrowth ==
    /\ [](buffer_ # nullptr => Len(mem) = capacity_)
    /\ [][ (op' \in PushOps /\ alloc_failed') =>
              /\ size_ = capacity_
              /\ has_error(errors_', BAD_ALLOC)
              /\ capacity_' = capacity_
              /\ buffer_' = buffer_
              /\ mem' = mem
              /\ size_' = size_
              /\ control_sum_' = control_sum_
              /\ live' = live
         ]_vars

C9_Witness ==
    /\ op = "push" /\ alloc_failed
    /\ size_ = capacity_ /\ size_ = 2
    /\ errors_ = BAD_ALLOC

\* C10: in every reachable state, for every value and allocation outcome,
\* push(const_reference) and push(rvalue_reference) leave the same instance
\* and fail the same way; the control sum grows by the hash the value had
\* before it was moved from.
C10_CopyMoveEquivalent ==
    \A element \in Values, alloc_ok \in BOOLEAN :
        LET c == push(Self, element, alloc_ok, safe_mode)
            m == push_move(Self, element, alloc_ok, safe_mode)
        IN  /\ c = m
            /\ Returned(m) =>
                  m.st.control_sum_ =
                      (control_sum_ + hash_function_(element)) % HashMod

C10_Witness ==
    /\ op = "push_move" /\ ~thrown /\ status = "alive"
    /\ size_ = 2 /\ mem[2] = 2 /\ control_sum_ # 0


\* C11: a push or pop that does not throw with STACK_SAFE_MODE defined leaves
\* the same instance and outcome with it undefined, so the two builds agree
\* call by call on size_, capacity_, the slots and control_sum_; with it
\* undefined no call throws, and control_sum_ is still the sum of the hashes
\* of the elements pushed and not yet popped.
C11_FastModeSameMutation ==
    /\ status = "alive" =>
          /\ \A element \in Values, alloc_ok \in BOOLEAN :
                /\ LET a == push(Self, element, alloc_ok, TRUE)
                   IN  ~a.thrown => a = push(Self, element, alloc_ok, FALSE)
                /\ LET a == push_move(Self, element, alloc_ok, TRUE)
                   IN  ~a.thrown => a = push_move(Self, element, alloc_ok, FALSE)
          /\ LET a == pop(Self, TRUE)
             IN  ~a.thrown => a = pop(Self, FALSE)
    /\ ~safe_mode => ~thrown
    /\ (~safe_mode /\ status = "alive") =>
          /\ control_sum_ = LiveSum(live)
          /\ size_ = Len(live)
          /\ LiveSlots = live

C11_Witness ==
    /\ ~safe_mode /\ op = "pop" /\ status = "alive"
    /\ grows = 1 /\ size_ = 2 /\ control_sum_ # 0


\* C12: with validation enabled, the constructor and every push, pop, top
\* and empty call end by throwing exactly when they leave errors_ nonzero:
\* none returns normally (or stops at the assert) with a bit set, whether
\* the bit was set during the call or found set.
C12_NeverSwallowed ==
    (op \in ApiOps \cup {"constructor"}) =>
        /\ thrown <=> (errors_ # 0)
        /\ (status # "alive") => (status = "noinstance" <=> errors_ # 0)

C12_Witness ==
    /\ op = "pop" /\ thrown /\ status = "alive"
    /\ has_error(errors_, CANARY_AFTER_CORRUPTED)
    /\ has_error(errors_, POP_FROM_EMPTY_STACK)


\* C13: on an instance that has reported nothing, the slots below size_ are
\* the elements pushed and not yet popped, oldest first, also after expand()
\* has moved them; and a top() that returns yields the last of them, the
\* most recently pushed element not yet popped.
C13_Lifo ==
    (status = "alive" /\ errors_ = 0) =>
        /\ LiveSlots = live
        /\ (op = "top" /\ size_ > 0) =>
              /\ ~thrown
              /\ ret = <<live[Len(live)]>>

C13_Witness ==
    /\ op = "top" /\ ~thrown /\ errors_ = 0
    /\ popped /\ grows = 1 /\ cap0 = 2
    /\ live = <<2, 1, 2>> /\ ret = <<2>> /\ mem[4] = 1


\* C14: 0 <= size_ <= capacity_ in every reachable state, in either build,
\* also after a failed growth and in calls made after a thrown failure; and
\* the block holds exactly capacity_ slots whenever there is one.
C14_SizeWithinCapacity ==
    /\ 0 <= size_
    /\ size_ <= capacity_
    /\ buffer_ # nullptr => Len(mem) = capacity_

C14_Witness ==
    /\ op \in PushOps /\ thrown /\ ~alloc_failed
    /\ has_error(errors_, BAD_ALLOC)
    /\ grows = 1 /\ size_ = 2 /\ capacity_ = 4


\* C15: whenever push reaches its write step after expand() succeeded and
\* validation passed, size_ < capacity_ holds, for every initial capacity
\* including 0: the assertion in push never fails.  A push that is still
\* running past validation either stores or aborts on the assertion, so
\* the statement is that no push ends with the instance aborted.
C15_AssertNeverFails ==
    (op \in PushOps /\ ~thrown /\ ~alloc_failed) => status # "aborted"

\* the state the statement excludes: a first push on capacity 0
C15_AssertFails ==
    /\ op \in PushOps /\ status = "aborted" /\ ~thrown /\ ~alloc_failed
    /\ cap0 = 0 /\ capacity_ = 0 /\ size_ = 0 /\ errors_ = 0


\* C16: validating an instance sets each of the three integrity bits on its
\* own condition (checksum differs from the hash sum of the live slots, front
\* canary differs from the sentinel, rear canary differs from the sentinel),
\* leaves every other bit and every other member as it was, and throws
\* exactly when the resulting bitmask is nonzero; with an empty bitmask and
\* nothing corrupted it changes nothing and returns.
C16_ValidateBits ==
    status = "alive" =>
        LET r == check_validity(Self)
            e == r.st.errors_
        IN  /\ has_error(e, WRONG_CONTROL_SUM) <=>
                  \/ has_error(errors_, WRONG_CONTROL_SUM)
                  \/ control_sum_ # LiveSum(LiveSlots)
            /\ has_error(e, CANARY_BEFORE_CORRUPTED) <=>
                  \/ has_error(errors_, CANARY_BEFORE_CORRUPTED)
                  \/ canary_before_ # POISON
            /\ has_error(e, CANARY_AFTER_CORRUPTED) <=>
                  \/ has_error(errors_, CANARY_AFTER_CORRUPTED)
                  \/ canary_after_ # POISON
            /\ \A b \in {POP_FROM_EMPTY_STACK, BAD_ALLOC, TOP_FROM_EMPTY_STACK} :
                  has_error(e, b) <=> has_error(errors_, b)
            /\ r.st = [Self EXCEPT !.errors_ = e]
            /\ r.thrown <=> (e # 0)
            /\ (op \in {"empty", "top", "pop"} /\ safe_mode) =>
                  /\ e = errors_
                  /\ thrown <=> (errors_ # 0)

C16_Witness ==
    /\ op = "empty" /\ thrown /\ status = "alive"
    /\ errors_ = CANARY_BEFORE_CORRUPTED + CANARY_AFTER_CORRUPTED
    /\ control_sum_ = LiveSum(LiveSlots) /\ size_ > 0


\* an instance with an empty bitmask, both canaries intact and a checksum
\* that matches its live slots
Uncorrupted ==
    /\ status = "alive" /\ errors_ = 0
    /\ canary_before_ = POISON /\ canary_after_ = POISON
    /\ control_sum_ = LiveSum(LiveSlots)

\* C17: on an unpoisoned, uncorrupted instance empty() and top() are pure
\* queries in either build: empty() returns normally with every member
\* unchanged and answers size_ = 0; top() on a non-empty instance returns
\* normally with every member unchanged and refers to the last live slot.
\* The state an empty() or a successful top() leaves is the one it found.
C17_PureQueries ==
    Uncorrupted =>
        \A safe \in BOOLEAN :
            /\ empty(Self, safe) = [st |-> Self, thrown |-> FALSE,
                                    status |-> "alive", ret |-> <<size_ = 0>>]
            /\ size_ > 0 =>
                  top(Self, safe) = [st |-> Self, thrown |-> FALSE,
                                     status |-> "alive", ret |-> <<mem[size_]>>]
            /\ op = "empty" => (~thrown /\ ret = <<size_ = 0>>)

C17_Witness ==
    /\ Uncorrupted /\ op = "empty" /\ ~thrown
    /\ ret = <<FALSE>> /\ popped /\ grows = 1 /\ size_ = 2


\* C18: pop validates after mutating, push validates before.  A pop() on an
\* instance with size_ > 0 that throws (already poisoned, or corruption
\* detected) has removed the top element: size_ is one less and the checksum
\* is reduced by the hash of the removed slot.  A push (either overload,
\* whatever the allocation does) that throws leaves size_, the checksum and
\* the live slots as they were.  The history of live elements, which drops
\* its last entry at every pop, therefore keeps the length of the stack.
C18_PopAfterPushBefore ==
    status = "alive" =>
        /\ size_ > 0 =>
              LET r == pop(Self, safe_mode)
              IN  r.thrown =>
                    /\ r.st.size_ = size_ - 1
                    /\ r.st.control_sum_ =
                          (control_sum_ - hash_function_(mem[size_])) % HashMod
                    /\ r.st.mem = mem
        /\ \A element \in Values, alloc_ok \in BOOLEAN :
              \A r \in {push(Self, element, alloc_ok, safe_mode),
                        push_move(Self, element, alloc_ok, safe_mode)} :
                  r.thrown =>
                    /\ r.st.size_ = size_
                    /\ r.st.control_sum_ = control_sum_
                    /\ [i \in 1..size_ |-> r.st.mem[i]] = LiveSlots
        /\ size_ = Len(live)

C18_Witness ==
    /\ op = "pop" /\ thrown /\ status = "alive"
    /\ errors_ = WRONG_CONTROL_SUM
    /\ size_ = 1 /\ live = <<1>> /\ mem[1] = 2 /\ mem[2] = 2


\* C19: a write through the reference top() returned is not tracked by the
\* checksum.  The write leaves control_sum_ as it was, so afterwards the
\* checksum differs from the hash sum of the live slots exactly when the
\* new value's hash differs from the old one's; and when it differs, the
\* next push, pop, top or empty call records WRONG_CONTROL_SUM and throws,
\* leaving the bit set (the instance is poisoned).
C19_WriteThroughTop ==
    [][ /\ op' = "write_top" =>
              /\ control_sum_' = control_sum_
              /\ size_' = size_
              /\ (control_sum_' # LiveSum(LiveSlots')) <=>
                     (hash_function_(mem'[size_]) # hash_function_(mem[size_]))
        /\ (op = "write_top" /\ control_sum_ # LiveSum(LiveSlots)
              /\ op' \in ApiOps) =>
              /\ thrown'
              /\ status' = "alive"
              /\ has_error(errors_', WRONG_CONTROL_SUM)
      ]_vars

C19_Witness ==
    /\ op = "push" /\ thrown /\ status = "alive"
    /\ errors_ = WRONG_CONTROL_SUM
    /\ LiveSlots = live /\ size_ = 2 /\ grows = 1
    /\ control_sum_ # LiveSum(live)


\* C20: checksum detection is exactly sum-based.  After an external change
\* to the live slots of an unpoisoned, uncorrupted instance, whichever
\* public method is called next records WRONG_CONTROL_SUM and throws if and
\* only if the change altered the sum of the elements' hashes modulo
\* 2^HashWidth; a change that keeps the sum (a permutation, or other
\* elements with the same hash sum) passes that validation with bitmask 0,
\* a failed allocation in push aside.
C20_Detected(r, sum_changed) ==
    /\ has_error(r.st.errors_, WRONG_CONTROL_SUM) <=> sum_changed
    /\ sum_changed => r.thrown
    /\ ~sum_changed =>
          /\ r.st.errors_ \in {0, BAD_ALLOC}
          /\ r.thrown <=> (r.st.errors_ # 0)

\* In the state right after the change the history of live elements still
\* holds the slots as they were before it.
C20_SumBased ==
    op = "tamper_slots" =>
        LET sum_changed == LiveSum(LiveSlots) # LiveSum(live)
        IN  /\ LiveSlots # live
            /\ Len(live) = size_
            /\ C20_Detected(empty(Self, safe_mode), sum_changed)
            /\ C20_Detected(top(Self, safe_mode), sum_changed)
            /\ C20_Detected(pop(Self, safe_mode), sum_changed)
            /\ \A e \in Values, a \in BOOLEAN :
                  /\ C20_Detected(push(Self, e, a, safe_mode), sum_changed)
                  /\ C20_Detected(push_move(Self, e, a, safe_mode),
                                  sum_changed)

\* a call returned normally over slots holding other elements with the
\* same hash sum
C20_Witness ==
    /\ op = "top" /\ ~thrown /\ errors_ = 0
    /\ live = <<2, 2>> /\ LiveSlots = <<1, 3>> /\ ret = <<3>>

====
